---- MODULE Spec2Model ----
(***************************************************************************)
(* Model of the face-recognition matching pipeline of                      *)
(* src/ai_services/face_recognition_service.py: one call of                *)
(* FaceRecognitionService.get_face_embedding or .recognize_faces, entered  *)
(* directly or through its HTTP endpoint (/encode, /recognize), together   *)
(* with the external detection and embedding capabilities and the identity *)
(* registry as nondeterministic environments.                              *)
(*                                                                         *)
(* Embedding components are integers in units of 0.1, so a Euclidean       *)
(* distance d (in units of 0.1) is represented by its square; d1 < d2 is   *)
(* decided as d1^2 < d2^2, which is the same order on non-negative reals.  *)
(***************************************************************************)
EXTENDS Integers, Sequences, FiniteSets, TLC

(* ------------------------------ bounds -------------------------------- *)

\* largest number of identities stored in the registry (pipeline)
MaxReg == 2
\* largest number of face crops one detector invocation returns
MaxFaces == 3
\* largest snapshot handed to the matcher when it is checked on its own
MaxSnap == 3
\* largest registry other clients build up while a call is in flight
MaxEnrolled == 2
\* concurrent invocations of the service methods
MaxCalls == 2
\* largest number of faces of one recognition call among concurrent calls
MaxTasks == 2

(* ------------------------- program constants -------------------------- *)

\* max_retries of extract_faces_with_retry
MaxRetries == 3
\* the match threshold 0.6, in units of 0.1
Threshold == 6
\* Python's None, the return value of an unmatched or failed face
None == "None"
\* float('inf'), the initial min_distance (squared distances are >= 0)
Inf == -1

(* --------------------------- value universes -------------------------- *)

\* components of model embeddings, in units of 0.1
Coords == {0, 3, 6}
\* well-formed embeddings (two components)
Vecs == {<<x, y>> : x, y \in Coords}
\* embeddings the embedding capability can produce for a face
FaceVecs == {<<0, 0>>, <<3, 0>>, <<6, 0>>, <<6, 6>>}
\* embeddings stored in the registry of the pipeline
RegVecs == {<<0, 0>>, <<0, 3>>, <<6, 3>>}

IdName(i) == "S" \o ToString(i)
Ids(n) == {IdName(i) : i \in 1..n}

\* sequences of at most n students with distinct studentId
Snapshots(n, vecs) ==
    UNION {{s \in [1..k -> [studentId : Ids(n), embedding : vecs]] :
              \A i, j \in 1..k : i # j => s[i].studentId # s[j].studentId}
           : k \in 0..n}

\* what DeepFace.represent can do: raise, return an empty list, or return a
\* list whose first entry carries an embedding (possibly of length zero)
EmbedOutcomes ==
    {[called |-> TRUE, raises |-> TRUE, value |-> <<>>]} \cup
    {[called |-> TRUE, raises |-> FALSE, value |-> r] :
        r \in {<<>>} \cup {<<[embedding |-> v]>> : v \in FaceVecs \cup {<<>>}}}

\* what DeepFace.extract_faces can do: raise, or return 0..MaxFaces crops
\* (a crop is identified by its position in the detector's output)
DetectOutcomes ==
    {[raises |-> TRUE, faces |-> <<>>]} \cup
    {[raises |-> FALSE, faces |-> [i \in 1..n |-> i]] : n \in 0..MaxFaces}

\* the local variable `embedding` before DeepFace.represent has been called
Unbound == [called |-> FALSE, raises |-> FALSE, value |-> <<>>]

\* what download_image_as_array followed by cv2.imencode can do
DownloadOutcomes == {"ok", "timeout", "request_error", "processing_error", "encode_error"}

(* ------------------------------ matcher -------------------------------- *)

\* numpy broadcasting of two 1-d arrays: a - b is defined iff the lengths
\* agree or one of them is 1
CanSubtract(a, b) == Len(a) = Len(b) \/ Len(a) = 1 \/ Len(b) = 1

BroadcastLen(a, b) == IF Len(a) = 1 THEN Len(b) ELSE Len(a)

Elem(a, i) == IF Len(a) = 1 THEN a[1] ELSE a[i]

RECURSIVE SumSq(_, _, _)
SumSq(a, b, n) ==
    IF n = 0 THEN 0
    ELSE (Elem(a, n) - Elem(b, n)) * (Elem(a, n) - Elem(b, n)) + SumSq(a, b, n - 1)

\* np.linalg.norm(np.array(a) - np.array(b)), squared
DistSq(a, b) == SumSq(a, b, BroadcastLen(a, b))

\* mutant of LessThan: <= in place of <, so a later tie replaces the first
LessOrEqual(distance, min_distance) == min_distance = Inf \/ distance <= min_distance

\* distance < min_distance, with min_distance possibly float('inf')
LessThan(distance, min_distance) == min_distance = Inf \/ distance < min_distance

\* mutant of UnderThreshold: <= 0.6 in place of < 0.6
UnderThresholdInclusive(distance) == distance <= Threshold * Threshold

\* distance < 0.6
UnderThreshold(distance) == distance < Threshold * Threshold

\* the condition of line 232
Accepts(distance, min_distance) ==
    LessThan(distance, min_distance) /\ UnderThreshold(distance)

\* the loop of lines 224-236 from entry i on; raised is TRUE when the
\* subtraction raises (shapes that do not broadcast), matched and min then
\* being the locals as the exception found them
RECURSIVE ScanFrom(_, _, _, _, _)
ScanFrom(emb, students, i, min_distance, matched_student) ==
    IF i > Len(students)
    THEN [raised |-> FALSE, matched |-> matched_student, min |-> min_distance]
    ELSE IF ~CanSubtract(emb, students[i].embedding)
    THEN [raised |-> TRUE, matched |-> matched_student, min |-> min_distance]
    ELSE LET distance == DistSq(emb, students[i].embedding) IN
         IF Accepts(distance, min_distance)
         THEN ScanFrom(emb, students, i + 1, distance, students[i].studentId)
         ELSE ScanFrom(emb, students, i + 1, min_distance, matched_student)

\* mutant of MatchFace: min_distance starts at 0 instead of float('inf')
MatchFaceFromZero(emb, students) == ScanFrom(emb, students, 1, 0, None)

MatchFace(emb, students) == ScanFrom(emb, students, 1, Inf, None)

\* mutant of FaceReturn: a failed or empty embedding is replaced by the zero
\* vector and matched, instead of ending the face as None
FaceReturnZeroOnFailure(rep, students) ==
    IF Len(students) = 0 THEN None
    ELSE IF rep.raises \/ Len(rep.value) = 0 \/ Len(rep.value[1].embedding) = 0
    THEN ScanFrom(<<0, 0>>, students, 1, Inf, None).matched
    ELSE ScanFrom(rep.value[1].embedding, students, 1, Inf, None).matched

\* mutant of FaceReturn: when the scan raises, the match found so far is
\* returned
FaceReturnKeepsMatch(rep, students) ==
    IF rep.raises \/ Len(students) = 0 \/ Len(rep.value) = 0 THEN None
    ELSE ScanFrom(rep.value[1].embedding, students, 1, Inf, None).matched

\* lines 216-236 raise: DeepFace.represent raises, embedding[0] does not
\* exist when the scan reads it, or the subtraction raises
FaceRaises(rep, students) ==
    \/ rep.raises
    \/ /\ Len(students) > 0
       /\ \/ Len(rep.value) = 0
          \/ MatchFace(rep.value[1].embedding, students).raised

\* the value process_single_face returns once the artifact is written:
\* rep is the outcome of DeepFace.represent
FaceReturn(rep, students) ==
    IF FaceRaises(rep, students) THEN None
    ELSE IF Len(students) = 0 THEN None
    ELSE MatchFace(rep.value[1].embedding, students).matched

(* ------------------------------- state --------------------------------- *)

VARIABLES
    op,          \* the service method called: "get_face_embedding" | "recognize_faces"
    viaUrl,      \* TRUE when the method is reached through its HTTP endpoint
    registry,    \* the students collection: sequence of [studentId, embedding]
    pc,          \* position of the call
    decodeOk,    \* "unknown" | "ok" | "fail": what cv2.imdecode did
    dbOk,        \* "unknown" | "ok" | "fail": what the registry read did
    students,    \* the snapshot fetched by get_all_embeddings
    fetches,     \* number of reads of the registry
    files,       \* temporary artifacts that exist on disk
    attempt,     \* loop variable of extract_faces_with_retry
    detectLog,   \* per detector invocation: "zero" | "raise" | "faces"
    waits,       \* time.sleep(1) calls
    detected,    \* what the latest detector invocation returned
    faces,       \* what extract_faces_with_retry returned
    idx,         \* index of the face being processed (1-based)
    embedding,   \* what DeepFace.represent did for the current face
    faceRet,     \* pending return value of process_single_face
    faceResults, \* per face, the value process_single_face returned
    faceErrors,  \* indices of the faces whose processing hit the except clause
    recognized,  \* recognized_students
    embedCalls,  \* invocations of DeepFace.represent
    svc,         \* how the service method ended
    http,        \* what the endpoint answered
    query,       \* matcher on its own: the query embedding
    snapshot,    \* matcher on its own: the snapshot
    matchOut,    \* matcher on its own: the result of the scan
    rmFailures,  \* the temporary files whose os.remove raised
    invs,        \* concurrent calls: per invocation, its position and locals
    uuids,       \* concurrent calls: how many values uuid.uuid4() has returned
    used,        \* concurrent calls: per name, the tasks that wrote a file of it
    removed,     \* concurrent calls: which invocation removed a name
    run,         \* two runs on one input: 1 or 2; 0 when the inputs are free
    script,      \* two runs on one input: what the capabilities do, per run
    firstSvc,    \* two runs on one input: how the first run ended
    cropErrors   \* indices of the faces whose crop cv2.imwrite failed to write

callVars == <<op, viaUrl, registry>>
fetchVars == <<dbOk, students, fetches>>
detectVars == <<attempt, detectLog, waits, detected, faces>>
faceVars == <<idx, embedding, faceRet, faceResults, faceErrors, recognized>>
matchVars == <<query, snapshot, matchOut>>
concVars == <<invs, uuids, used, removed>>
detVars == <<run, script, firstSvc>>
vars == <<callVars, pc, decodeOk, fetchVars, files, detectVars, faceVars,
          embedCalls, svc, http, matchVars, rmFailures, concVars, detVars,
          cropErrors>>

Pending == [kind |-> "pending", status |-> 0, detail |-> "", value |-> <<>>]
Returned(v) == [kind |-> "return", status |-> 200, detail |-> "", value |-> v]
Raised(code, why) == [kind |-> "error", status |-> code, detail |-> why, value |-> <<>>]

NoHttp == [kind |-> "none", status |-> 0, detail |-> "", value |-> <<>>, count |-> 0]

ImgFile == "temp_img"
FaceFile(i) == "temp_face_" \o ToString(i)

\* the except clause that ends the method when an ordinary exception escapes
\* its try block: get_face_embedding prefixes the message, recognize_faces
\* keeps it
Wrap500(why) ==
    IF op = "get_face_embedding"
    THEN Raised(500, "Error processing face: " \o why)
    ELSE Raised(500, why)

MatchIdle ==
    /\ query = <<>>
    /\ snapshot = <<>>
    /\ matchOut = [raised |-> FALSE, matched |-> None, min |-> Inf]

\* what the environment does when nothing constrains it
NoScript == [decodable |-> TRUE, reachable |-> TRUE, detect |-> <<>>, face |-> <<>>]

\* the outcomes of the environment are free at every step
Unscripted ==
    /\ run = 0
    /\ script = NoScript
    /\ firstSvc = Pending

Fresh ==
    /\ decodeOk = "unknown"
    /\ dbOk = "unknown"
    /\ students = <<>>
    /\ fetches = 0
    /\ files = {}
    /\ attempt = 0
    /\ detectLog = <<>>
    /\ waits = 0
    /\ detected = <<>>
    /\ faces = <<>>
    /\ idx = 0
    /\ embedding = Unbound
    /\ faceRet = None
    /\ faceResults = <<>>
    /\ faceErrors = {}
    /\ recognized = <<>>
    /\ embedCalls = 0
    /\ svc = Pending
    /\ http = NoHttp
    /\ rmFailures = {}
    /\ cropErrors = {}
    /\ invs = <<>>
    /\ uuids = 0
    /\ used = <<>>
    /\ removed = {}

Init ==
    /\ op \in {"get_face_embedding", "recognize_faces"}
    /\ viaUrl \in BOOLEAN
    /\ registry \in Snapshots(MaxReg, RegVecs)
    /\ pc = IF viaUrl THEN "download" ELSE "decode"
    /\ Fresh
    /\ MatchIdle
    /\ Unscripted

(* ------------------------------ endpoint ------------------------------- *)

\* str(e) of an HTTPException e: "<status_code>: <detail>"
HttpStr(code, why) == ToString(code) \o ": " \o why

HttpError(code, why) ==
    [kind |-> "error", status |-> code, detail |-> why, value |-> <<>>, count |-> 0]

\* the error the endpoint delivers when the download step raises
\* HTTPException(code, why): recognize_students re-raises it, while
\* get_face_embedding_from_url turns every exception into a 500
DownloadError(code, why) ==
    IF op = "recognize_faces"
    THEN HttpError(code, why)
    ELSE HttpError(500, HttpStr(code, why))

\* download_image_as_array + cv2.imencode at the head of both endpoints
Download ==
    /\ pc = "download"
    /\ \E r \in DownloadOutcomes :
          IF r = "ok"
          THEN /\ pc' = "decode"
               /\ http' = http
          ELSE /\ pc' = "done"
               /\ http' = CASE r = "timeout" -> DownloadError(408, "Timeout downloading image")
                            [] r = "request_error" -> DownloadError(400, "Failed to download image")
                            [] r = "processing_error" -> DownloadError(500, "Error processing image")
                            [] OTHER -> HttpError(500, "Failed to encode image as JPG")
    /\ UNCHANGED <<callVars, decodeOk, fetchVars, files, detectVars, faceVars,
                   embedCalls, svc, matchVars, rmFailures, concVars, detVars, cropErrors>>

\* mutant of RecognizeResponse: count is the number of detected faces
RecognizeResponseFaces(list) ==
    [kind |-> "success", status |-> 200, detail |-> "",
     value |-> list, count |-> Len(faces)]

\* the response of recognize_students for the list recognize_faces returned
RecognizeResponse(list) ==
    [kind |-> "success", status |-> 200, detail |-> "",
     value |-> list, count |-> Len(list)]

\* get_face_embedding_from_url, lines 157-159: every exception of the call,
\* an HTTPException included, becomes HTTPException(500, str(e))
UrlWrapper(s) == HttpError(500, HttpStr(s.status, s.detail))

\* what the endpoint answers once the service method has ended
EndpointAnswer(s) ==
    IF op = "recognize_faces"
    THEN IF s.kind = "return"
         THEN RecognizeResponse(s.value)
         ELSE HttpError(s.status, s.detail)
    ELSE IF s.kind = "return"
         THEN [kind |-> "success", status |-> 200, detail |-> "",
               value |-> s.value, count |-> 0]
         ELSE UrlWrapper(s)

Respond ==
    /\ pc = "respond"
    /\ http' = EndpointAnswer(svc)
    /\ pc' = "done"
    /\ UNCHANGED <<callVars, decodeOk, fetchVars, files, detectVars, faceVars,
                   embedCalls, svc, matchVars, rmFailures, concVars, detVars, cropErrors>>

(* --------------------------- service methods --------------------------- *)

\* whether cv2.imdecode yields an image: a property of the image bytes
DecodeChoices == IF run > 0 THEN {script.decodable} ELSE BOOLEAN

\* whether the students collection answers the find
FetchChoices == IF run > 0 THEN {script.reachable} ELSE BOOLEAN

\* what DeepFace.extract_faces does on the current attempt
DetectChoices ==
    IF run = 0 THEN DetectOutcomes
    ELSE IF attempt + 1 \in DOMAIN script.detect THEN {script.detect[attempt + 1]}
    ELSE {}

\* whether cv2.imwrite writes the crop of the current face
FaceWriteChoices ==
    IF run = 0 THEN BOOLEAN
    ELSE IF idx \in DOMAIN script.face THEN {script.face[idx].writes}
    ELSE {}

\* what DeepFace.represent does on the crop of the current face
FaceEmbedChoices ==
    IF run = 0 THEN EmbedOutcomes
    ELSE IF idx \in DOMAIN script.face THEN {script.face[idx].rep}
    ELSE {}

\* mutant of NotAnImage: the result of cv2.imdecode is not checked
NotAnImageUnchecked(decodable) == FALSE

\* lines 167 and 255: `if img is None`, img being what cv2.imdecode returned
NotAnImage(decodable) == ~decodable

\* np.frombuffer + cv2.imdecode + preprocess_image
Decode ==
    /\ pc = "decode"
    /\ \E decodable \in DecodeChoices :
          /\ decodeOk' = IF decodable THEN "ok" ELSE "fail"
          /\ IF NotAnImage(decodable)
             THEN /\ pc' = "finally"
                  /\ svc' = Wrap500("Failed to decode image")
             ELSE /\ pc' = IF op = "recognize_faces" THEN "fetch" ELSE "write"
                  /\ svc' = svc
    /\ UNCHANGED <<callVars, fetchVars, files, detectVars, faceVars,
                   embedCalls, http, matchVars, rmFailures, concVars, detVars, cropErrors>>

\* mutant of SnapshotEmpty: the `if not students` check is missing
SnapshotEmptyNever(s) == FALSE

\* recognize_faces, line 263: `if not students`
SnapshotEmpty(s) == Len(s) = 0

\* mutant of AfterEmptySnapshot: the call goes on to write the image and to
\* detect before it returns
AfterEmptySnapshotDetect == "write"

\* lines 263-265: `return []` leaves the try block for the finally clause
AfterEmptySnapshot == "finally"

\* get_all_embeddings and the empty check of recognize_faces
FetchStudents ==
    /\ pc = "fetch"
    /\ fetches' = fetches + 1
    /\ \E reachable \in FetchChoices :
          IF ~reachable
          THEN /\ dbOk' = "fail"
               /\ svc' = Wrap500(HttpStr(500, "Database error"))
               /\ students' = students
               /\ pc' = "finally"
          ELSE /\ dbOk' = "ok"
               /\ students' = registry
               /\ IF SnapshotEmpty(registry)
                  THEN svc' = Returned(<<>>) /\ pc' = AfterEmptySnapshot
                  ELSE svc' = svc /\ pc' = "write"
    /\ UNCHANGED <<callVars, decodeOk, files, detectVars, faceVars,
                   embedCalls, http, matchVars, rmFailures, concVars, detVars, cropErrors>>

\* cv2.imwrite(temp_img_path, img), and the entry of
\* extract_faces_with_retry: `for attempt in range(max_retries)`
WriteImage ==
    /\ pc = "write"
    /\ files' = files \cup {ImgFile}
    /\ attempt' = 0
    /\ pc' = "detect"
    /\ UNCHANGED <<callVars, decodeOk, fetchVars, detectLog, waits, detected,
                   faces, faceVars, embedCalls, svc, http, matchVars, rmFailures, concVars, detVars, cropErrors>>

\* mutant of IsLastAttempt: no attempt is followed by a retry
IsLastAttemptAlways(a) == TRUE

\* mutant of IsLastAttempt: zero faces are followed by a wait on every attempt
IsLastAttemptNever(a) == FALSE

\* line 137: attempt < max_retries - 1 is false, no retry follows zero faces
IsLastAttempt(a) == ~(a < MaxRetries - 1)

\* mutant of ExceptReraises: a failure is re-raised on every attempt
ExceptReraisesAlways(a) == TRUE

\* mutant of ExceptReraises: a failure is never re-raised
ExceptReraisesNever(a) == FALSE

\* mutant of ExceptReraises: a failure is re-raised one attempt early as well
ExceptReraisesEarly(a) == ~(a < MaxRetries - 2)

\* lines 141-145: the except clause re-raises when no retry is left
ExceptReraises(a) == ~(a < MaxRetries - 1)

\* how one detector invocation is logged
DetectKind(r) ==
    IF r.raises THEN "raise" ELSE IF Len(r.faces) = 0 THEN "zero" ELSE "faces"

\* one iteration of the loop of extract_faces_with_retry, up to its sleep
DetectAttempt ==
    /\ pc = "detect"
    /\ attempt < MaxRetries
    /\ \E r \in DetectChoices :
          /\ detectLog' = Append(detectLog, DetectKind(r))
          /\ detected' = r.faces
          /\ IF r.raises
             THEN IF ExceptReraises(attempt)
                  THEN /\ svc' = Wrap500("Face detection failed")
                       /\ pc' = "finally"
                       /\ faces' = faces
                  ELSE /\ pc' = "sleep"
                       /\ faces' = faces
                       /\ svc' = svc
             ELSE IF Len(r.faces) > 0
             THEN /\ faces' = r.faces
                  /\ pc' = "faces"
                  /\ svc' = svc
             ELSE IF ~IsLastAttempt(attempt)
             THEN /\ pc' = "sleep"
                  /\ faces' = faces
                  /\ svc' = svc
             ELSE /\ faces' = <<>>
                  /\ pc' = "faces"
                  /\ svc' = svc
    /\ UNCHANGED <<callVars, decodeOk, fetchVars, files, attempt, waits,
                   faceVars, embedCalls, http, matchVars, rmFailures, concVars, detVars, cropErrors>>

\* time.sleep(1) and the next value of the loop variable
\* mutant of AfterBackoff: the wait never hands control back to the loop
AfterBackoffBlocked == "blocked"

\* time.sleep(1) returns and the for loop goes on with its next attempt
AfterBackoff == "detect"

Backoff ==
    /\ pc = "sleep"
    /\ waits' = waits + 1
    /\ attempt' = attempt + 1
    /\ pc' = AfterBackoff
    /\ UNCHANGED <<callVars, decodeOk, fetchVars, files, detectLog, detected,
                   faces, faceVars, embedCalls, svc, http, matchVars, rmFailures, concVars, detVars, cropErrors>>

\* mutant of FaceCount: the `if not faces` check is missing
FaceCountNoEmptyCheck(n) == IF n > 1 THEN "multiple" ELSE "one"

\* mutant of FaceCount: the `len(faces) > 1` check is missing
FaceCountPickFirst(n) == IF n = 0 THEN "none" ELSE "one"

\* the cardinality checks of get_face_embedding, lines 180-183
FaceCount(n) == IF n = 0 THEN "none" ELSE IF n > 1 THEN "multiple" ELSE "one"

CheckOneFace ==
    /\ pc = "faces"
    /\ op = "get_face_embedding"
    /\ LET c == FaceCount(Len(faces)) IN
       IF c = "none"
       THEN svc' = Raised(400, "No face detected in image") /\ pc' = "finally"
       ELSE IF c = "multiple"
       THEN svc' = Raised(400, "Multiple faces detected in image") /\ pc' = "finally"
       ELSE svc' = svc /\ pc' = "embed"
    /\ UNCHANGED <<callVars, decodeOk, fetchVars, files, detectVars, faceVars,
                   embedCalls, http, matchVars, rmFailures, concVars, detVars, cropErrors>>

\* mutant of Invoked: a failed DeepFace.represent is tried a second time
InvokedWithRetry(calls, rep) == IF rep.raises THEN calls + 2 ELSE calls + 1

\* the invocations of DeepFace.represent after the one of lines 186-192 or
\* 216-222, which is not repeated whatever it did
Invoked(calls, rep) == calls + 1

\* mutant of EnrollEnd: the check of line 194 only looks at the list, so a
\* zero-length vector is returned as the embedding
EnrollEndUnchecked(rep) ==
    IF rep.raises THEN Wrap500("represent failed")
    ELSE IF Len(rep.value) = 0 THEN Wrap500("Failed to generate embedding")
    ELSE Returned(rep.value[1].embedding)

\* the value get_face_embedding ends with, given what DeepFace.represent did
EnrollEnd(rep) ==
    IF rep.raises THEN Wrap500("represent failed")
    ELSE IF Len(rep.value) = 0 \/ Len(rep.value[1].embedding) = 0
    THEN Wrap500("Failed to generate embedding")
    ELSE Returned(rep.value[1].embedding)

\* get_face_embedding, lines 185-197
EmbedOne ==
    /\ pc = "embed"
    /\ \E rep \in EmbedOutcomes :
          /\ embedCalls' = Invoked(embedCalls, rep)
          /\ embedding' = rep
          /\ svc' = EnrollEnd(rep)
    /\ pc' = "finally"
    /\ UNCHANGED <<callVars, decodeOk, fetchVars, files, detectVars, idx,
                   faceRet, faceResults, faceErrors, recognized, http,
                   matchVars, rmFailures, concVars, detVars, cropErrors>>

\* mutant of EmptyFacesEnd: zero faces raise as they do in enrollment
EmptyFacesRaise == Raised(400, "No face detected in image")

\* recognize_faces, lines 273-275: what the call ends with on zero faces
EmptyFacesEnd == Returned(<<>>)

\* mutant of FreshList: the list of an earlier call is appended to
StaleList == recognized

\* line 278: recognized_students = []
FreshList == <<>>

\* recognize_faces, lines 273-281: the empty check and the start of the loop
StartFaces ==
    /\ pc = "faces"
    /\ op = "recognize_faces"
    /\ IF Len(faces) = 0
       THEN svc' = EmptyFacesEnd /\ pc' = "finally" /\ idx' = idx
       ELSE svc' = svc /\ pc' = "face_write" /\ idx' = 1
    /\ recognized' = FreshList
    /\ UNCHANGED <<callVars, decodeOk, fetchVars, files, detectVars,
                   embedding, faceRet, faceResults, faceErrors, embedCalls,
                   http, matchVars, rmFailures, concVars, detVars, cropErrors>>

\* process_single_face, line 215: cv2.imwrite(face_path, face['face'])
FaceWrite ==
    /\ pc = "face_write"
    /\ \E writes \in FaceWriteChoices :
          IF writes
          THEN /\ files' = files \cup {FaceFile(idx)}
               /\ pc' = "face_embed"
               /\ faceErrors' = faceErrors
               /\ cropErrors' = cropErrors
          ELSE /\ files' = files
               /\ pc' = "face_cleanup"
               /\ faceErrors' = faceErrors \cup {idx}
               /\ cropErrors' = cropErrors \cup {idx}
    /\ faceRet' = None
    /\ UNCHANGED <<callVars, decodeOk, fetchVars, detectVars, idx, embedding,
                   faceResults, recognized, embedCalls, svc, http, matchVars,
                   rmFailures, concVars, detVars>>

\* mutant of MatchSource: every face is matched against the registry as it
\* is when the face is processed
MatchSourceLive == registry

\* line 282: the list fetched at line 261 is what every call of
\* process_single_face receives
MatchSource == students

\* process_single_face, lines 216-240: represent, the scan, the except
FaceEmbed ==
    /\ pc = "face_embed"
    /\ \E rep \in FaceEmbedChoices :
          /\ embedCalls' = Invoked(embedCalls, rep)
          /\ embedding' = rep
          /\ faceRet' = FaceReturn(rep, MatchSource)
          /\ faceErrors' = IF FaceRaises(rep, MatchSource)
                           THEN faceErrors \cup {idx} ELSE faceErrors
    /\ pc' = "face_cleanup"
    /\ UNCHANGED <<callVars, decodeOk, fetchVars, files, detectVars, idx,
                   faceResults, recognized, svc, http, matchVars, rmFailures, concVars, detVars, cropErrors>>

\* mutant of Collect: the result of every face is appended, None included
CollectAll(list, result) == Append(list, result)

\* recognized_students after the caller's `if result: append(result)`
Collect(list, result) == IF result # None THEN Append(list, result) ELSE list

\* mutant of Removed: the file is left behind whatever os.remove does
RemovedNever(fs, f, ok) == fs

\* mutant of Removed: the cleanup of one file clears every temporary file
RemovedAll(fs, f, ok) == {}

\* os.remove(f) inside `if os.path.exists(f): try ... except: warning`:
\* the files that exist afterwards, ok telling whether os.remove succeeded
Removed(fs, f, ok) == IF ok THEN fs \ {f} ELSE fs

\* the failures logged so far, after os.remove(f) on the files fs
Warned(fs, f, ok) ==
    IF f \in fs /\ ~ok THEN rmFailures \cup {f} ELSE rmFailures

\* mutant of AfterRemove: the exception of os.remove leaves the finally clause
AfterRemoveEscalates(ok, outcome) ==
    IF ok THEN outcome ELSE Raised(500, "remove failed")

\* lines 206-209, 243-246, 298-301: the exception of os.remove is caught and
\* logged, so the pending return value or exception of the method is kept
AfterRemove(ok, outcome) == outcome

\* mutant of MoreFaces: the loop ends one face early
MoreFacesButLast(i, n) == i + 1 < n

\* line 281: `for idx, face in enumerate(faces)` has a face after the i-th
MoreFaces(i, n) == i < n

\* process_single_face's finally, its return, and lines 283-291 of the caller
FaceCleanupWith(ok) ==
    /\ pc = "face_cleanup"
    /\ files' = Removed(files, FaceFile(idx), ok)
    /\ rmFailures' = Warned(files, FaceFile(idx), ok)
    /\ LET result == AfterRemove(ok, Returned(faceRet)).value IN
          /\ faceResults' = Append(faceResults, result)
          /\ recognized' = Collect(recognized, result)
    /\ faceRet' = None
    /\ embedding' = Unbound
    /\ IF MoreFaces(idx, Len(faces))
       THEN idx' = idx + 1 /\ pc' = "face_write" /\ svc' = svc
       ELSE idx' = idx /\ pc' = "finally" /\ svc' = Returned(recognized')
    /\ UNCHANGED <<callVars, decodeOk, fetchVars, detectVars, faceErrors,
                   embedCalls, http, matchVars, concVars, detVars, cropErrors>>

\* the finally clause of get_face_embedding and recognize_faces
FinallyWith(ok) ==
    /\ pc = "finally"
    /\ files' = Removed(files, ImgFile, ok)
    /\ rmFailures' = Warned(files, ImgFile, ok)
    /\ svc' = AfterRemove(ok, svc)
    /\ pc' = IF viaUrl THEN "respond" ELSE "done"
    /\ UNCHANGED <<callVars, decodeOk, fetchVars, detectVars, faceVars,
                   embedCalls, http, matchVars, concVars, detVars, cropErrors>>

\* the two cleanups on a filesystem where os.remove succeeds
FaceCleanup == FaceCleanupWith(TRUE)

Finally == FinallyWith(TRUE)

Next ==
    \/ Download
    \/ Decode
    \/ FetchStudents
    \/ WriteImage
    \/ DetectAttempt
    \/ Backoff
    \/ CheckOneFace
    \/ EmbedOne
    \/ StartFaces
    \/ FaceWrite
    \/ FaceEmbed
    \/ FaceCleanup
    \/ Finally
    \/ Respond

Spec == Init /\ [][Next]_vars

(* ------------------- a filesystem where os.remove can raise ------------ *)

\* the registry has no part in the cleanup: it is empty or holds one student
InitRm ==
    /\ op \in {"get_face_embedding", "recognize_faces"}
    /\ viaUrl \in BOOLEAN
    /\ registry \in {<<>>} \cup {<<[studentId |-> IdName(1), embedding |-> v]>> : v \in RegVecs}
    /\ pc = IF viaUrl THEN "download" ELSE "decode"
    /\ Fresh
    /\ MatchIdle
    /\ Unscripted

FaceCleanupRm == \E ok \in BOOLEAN : FaceCleanupWith(ok)

FinallyRm == \E ok \in BOOLEAN : FinallyWith(ok)

NextRm ==
    \/ Download
    \/ Decode
    \/ FetchStudents
    \/ WriteImage
    \/ DetectAttempt
    \/ Backoff
    \/ CheckOneFace
    \/ EmbedOne
    \/ StartFaces
    \/ FaceWrite
    \/ FaceEmbed
    \/ FaceCleanupRm
    \/ FinallyRm
    \/ Respond

SpecRm == InitRm /\ [][NextRm]_vars

(* ------------- recognize_faces while students are being enrolled ------- *)

\* a direct call of recognize_faces on a registry of at most one student
InitReg ==
    /\ op = "recognize_faces"
    /\ viaUrl = FALSE
    /\ registry \in {<<>>} \cup {<<[studentId |-> IdName(1), embedding |-> v]>> : v \in RegVecs}
    /\ pc = "decode"
    /\ Fresh
    /\ MatchIdle
    /\ Unscripted

\* another client of the students collection stores the embedding of one more
\* student, at any moment of the call
RegistryWrite ==
    /\ Len(registry) < MaxEnrolled
    /\ \E v \in RegVecs :
          registry' = Append(registry, [studentId |-> IdName(Len(registry) + 1),
                                        embedding |-> v])
    /\ UNCHANGED <<op, viaUrl, pc, decodeOk, fetchVars, files, detectVars,
                   faceVars, embedCalls, svc, http, matchVars, rmFailures, concVars, detVars, cropErrors>>

NextReg ==
    \/ Decode
    \/ FetchStudents
    \/ WriteImage
    \/ DetectAttempt
    \/ Backoff
    \/ StartFaces
    \/ FaceWrite
    \/ FaceEmbed
    \/ FaceCleanup
    \/ Finally
    \/ RegistryWrite

SpecReg == InitReg /\ [][NextReg]_vars

(* ---------------- temporary files of concurrent invocations ----------- *)

\* no file name bound yet
NoName == <<"", 0, 0>>

\* line 174 and line 268: f"temp_{uuid.uuid4().hex}.jpg"
ImgName(u) == <<"temp", u, 0>>

\* mutant of FaceName: the name of a face file carries no uuid
FaceNameByIndex(u, i) == <<"temp_face", 0, i>>

\* line 213: f"temp_face_{uuid.uuid4().hex}_{face_idx}.jpg"
FaceName(u, i) == <<"temp_face", u, i>>

\* uuid.uuid4(): a value it has not returned before
Uuid4 == uuids + 1

\* the writers of every name, after task t of invocation c wrote name
Wrote(name, c, t) ==
    IF name \in DOMAIN used
    THEN [used EXCEPT ![name] = @ \cup {[call |-> c, task |-> t]}]
    ELSE used @@ (name :> {[call |-> c, task |-> t]})

\* an invocation that has not yet named a file
Entered(o) == [op |-> o, at |-> "name_img", img |-> NoName, face |-> NoName,
               idx |-> 0]

\* MaxCalls invocations, each of either method, on a shared working directory
InitConc ==
    /\ op = "recognize_faces"
    /\ viaUrl = FALSE
    /\ registry = <<>>
    /\ pc = "concurrent"
    /\ decodeOk = "unknown"
    /\ dbOk = "unknown"
    /\ students = <<>>
    /\ fetches = 0
    /\ files = {}
    /\ attempt = 0
    /\ detectLog = <<>>
    /\ waits = 0
    /\ detected = <<>>
    /\ faces = <<>>
    /\ idx = 0
    /\ embedding = Unbound
    /\ faceRet = None
    /\ faceResults = <<>>
    /\ faceErrors = {}
    /\ recognized = <<>>
    /\ embedCalls = 0
    /\ svc = Pending
    /\ http = NoHttp
    /\ rmFailures = {}
    /\ cropErrors = {}
    /\ MatchIdle
    /\ invs \in [1..MaxCalls ->
                    {Entered(o) : o \in {"get_face_embedding", "recognize_faces"}}]
    /\ uuids = 0
    /\ used = <<>>
    /\ removed = {}
    /\ Unscripted

\* what the concurrent steps leave alone
ConcUnchanged ==
    UNCHANGED <<callVars, pc, decodeOk, fetchVars, detectVars, faceVars,
                embedCalls, svc, http, matchVars, rmFailures, detVars, cropErrors>>

\* lines 174-183 and 268-282: the whole-image file is named and written, and
\* detection runs on it; enrollment writes no further file, recognition
\* processes its faces one at a time when the detector found any
ConcWriteImage(c) ==
    /\ invs[c].at = "name_img"
    /\ \E found \in BOOLEAN :
          LET name == ImgName(Uuid4) IN
          /\ invs' = [invs EXCEPT ![c].img = name,
                                  ![c].at = IF invs[c].op = "recognize_faces" /\ found
                                            THEN "name_face" ELSE "finally"]
          /\ files' = files \cup {name}
          /\ used' = Wrote(name, c, 0)
    /\ uuids' = Uuid4
    /\ removed' = removed
    /\ ConcUnchanged

\* process_single_face, lines 213-215: the face file is named and written
ConcWriteFace(c) ==
    /\ invs[c].at = "name_face"
    /\ LET name == FaceName(Uuid4, invs[c].idx) IN
          /\ invs' = [invs EXCEPT ![c].face = name, ![c].at = "remove_face"]
          /\ files' = files \cup {name}
          /\ used' = Wrote(name, c, invs[c].idx + 1)
    /\ uuids' = Uuid4
    /\ removed' = removed
    /\ ConcUnchanged

\* the removals so far, after `if os.path.exists(name): os.remove(name)` by c
RemovedBy(c, name) ==
    IF name \in files THEN removed \cup {[name |-> name, call |-> c]} ELSE removed

\* process_single_face, lines 241-246, and the next turn of the caller's
\* loop, which ends when the detected faces are exhausted
ConcRemoveFace(c) ==
    /\ invs[c].at = "remove_face"
    /\ files' = files \ {invs[c].face}
    /\ removed' = RemovedBy(c, invs[c].face)
    /\ \E more \in {m \in BOOLEAN : m => invs[c].idx + 1 < MaxTasks} :
          invs' = IF more
                  THEN [invs EXCEPT ![c].idx = invs[c].idx + 1, ![c].at = "name_face"]
                  ELSE [invs EXCEPT ![c].at = "finally", ![c].face = NoName]
    /\ UNCHANGED <<uuids, used>>
    /\ ConcUnchanged

\* the finally clause of get_face_embedding and recognize_faces
ConcFinally(c) ==
    /\ invs[c].at = "finally"
    /\ files' = files \ {invs[c].img}
    /\ removed' = RemovedBy(c, invs[c].img)
    /\ invs' = [invs EXCEPT ![c].at = "done"]
    /\ UNCHANGED <<uuids, used>>
    /\ ConcUnchanged

NextConc ==
    \E c \in 1..MaxCalls :
        \/ ConcWriteImage(c)
        \/ ConcWriteFace(c)
        \/ ConcRemoveFace(c)
        \/ ConcFinally(c)

SpecConc == InitConc /\ [][NextConc]_vars

(* --------------- two runs of recognize_faces on one input -------------- *)

\* detector outcomes after which extract_faces_with_retry tries again
NoFaceOutcomes == {r \in DetectOutcomes : r.raises \/ Len(r.faces) = 0}

\* detector outcomes that end the retry loop with at most MaxTasks faces
SomeFaceOutcomes ==
    {r \in DetectOutcomes : ~r.raises /\ Len(r.faces) \in 1..MaxTasks}

\* what the detector does over the attempts of one call
DetectScripts ==
    UNION {{p \o <<r>> : p \in [1..k -> NoFaceOutcomes], r \in SomeFaceOutcomes}
           : k \in 0..(MaxRetries - 1)}
    \cup [1..MaxRetries -> NoFaceOutcomes]

\* what cv2.imwrite and DeepFace.represent do on one face crop
FaceSteps ==
    {[writes |-> FALSE, rep |-> Unbound]} \cup
    {[writes |-> TRUE, rep |-> e] : e \in EmbedOutcomes}

\* the faces the call goes on to process after the detector did d
FacesOf(d) == Len(d[Len(d)].faces)

\* what the image bytes and the capabilities fix for a call
Scripts ==
    {[NoScript EXCEPT !.decodable = FALSE], [NoScript EXCEPT !.reachable = FALSE]}
    \cup UNION {{[decodable |-> TRUE, reachable |-> TRUE, detect |-> d, face |-> f]
                    : f \in [1..FacesOf(d) -> FaceSteps]}
                : d \in DetectScripts}

\* a direct call of recognize_faces whose image, registry and capability
\* outputs are fixed for both runs
InitDet ==
    /\ op = "recognize_faces"
    /\ viaUrl = FALSE
    /\ registry \in {<<>>} \cup {<<[studentId |-> IdName(1), embedding |-> v]>> : v \in RegVecs}
    /\ pc = "decode"
    /\ Fresh
    /\ MatchIdle
    /\ run = 1
    /\ script \in Scripts
    /\ firstSvc = Pending

\* the first call has ended and recognize_faces is called again: what the
\* first call left in its locals is not cleared, what it left on disk stays,
\* the registry is the same, the logs start afresh
Again ==
    /\ pc = "done"
    /\ run = 1
    /\ run' = 2
    /\ firstSvc' = svc
    /\ svc' = Pending
    /\ pc' = "decode"
    /\ decodeOk' = "unknown"
    /\ dbOk' = "unknown"
    /\ fetches' = 0
    /\ detectLog' = <<>>
    /\ waits' = 0
    /\ detected' = <<>>
    /\ faceResults' = <<>>
    /\ faceErrors' = {}
    /\ embedCalls' = 0
    /\ cropErrors' = {}
    /\ UNCHANGED <<callVars, students, files, attempt, faces, idx, embedding,
                   faceRet, recognized, http, matchVars, rmFailures, concVars,
                   script>>

NextDet ==
    \/ Decode
    \/ FetchStudents
    \/ WriteImage
    \/ DetectAttempt
    \/ Backoff
    \/ StartFaces
    \/ FaceWrite
    \/ FaceEmbed
    \/ FaceCleanup
    \/ Finally
    \/ Again

SpecDet == InitDet /\ [][NextDet]_vars

(* ------------ recognize_faces on embeddings of several lengths --------- *)

\* stored embeddings of length 2, 3 and 1
DimVecs == {<<0, 0>>, <<6, 6>>, <<0, 0, 0>>, <<3>>}

\* a direct call of recognize_faces on a registry of two students whose
\* embeddings need not have the length of the query
InitDim ==
    /\ op = "recognize_faces"
    /\ viaUrl = FALSE
    /\ registry \in {<<[studentId |-> IdName(1), embedding |-> a],
                       [studentId |-> IdName(2), embedding |-> b]>> :
                        a \in DimVecs, b \in DimVecs}
    /\ pc = "decode"
    /\ Fresh
    /\ MatchIdle
    /\ Unscripted

NextDim ==
    \/ Decode
    \/ FetchStudents
    \/ WriteImage
    \/ DetectAttempt
    \/ Backoff
    \/ StartFaces
    \/ FaceWrite
    \/ FaceEmbed
    \/ FaceCleanup
    \/ Finally

SpecDim == InitDim /\ [][NextDim]_vars

(* ------------------------- the matcher on its own ---------------------- *)

\* One call under the assumption that every capability it invokes returns or
\* raises: the handler is a single coroutine whose every step is taken as soon
\* as the call it is waiting for has come back, so a step that stays enabled
\* is eventually taken.
InitLive == InitRm

SpecLive == InitLive /\ [][Next]_vars /\ WF_vars(Next)

MatchInit ==
    /\ op = "recognize_faces"
    /\ viaUrl = FALSE
    /\ registry = <<>>
    /\ pc = "match"
    /\ Fresh
    /\ query \in FaceVecs
    /\ snapshot \in Snapshots(MaxSnap, Vecs)
    /\ matchOut = [raised |-> FALSE, matched |-> None, min |-> Inf]
    /\ Unscripted

\* lines 224-236 applied to the query and the snapshot
RunMatch ==
    /\ pc = "match"
    /\ matchOut' = MatchFace(query, snapshot)
    /\ pc' = "matched"
    /\ UNCHANGED <<callVars, decodeOk, fetchVars, files, detectVars, faceVars,
                   embedCalls, svc, http, query, snapshot, rmFailures, concVars, detVars, cropErrors>>

MatchNext == RunMatch

SpecMatch == MatchInit /\ [][MatchNext]_vars

(* ------------------------------ properties ----------------------------- *)

\* the service method has ended (returned or raised)
Ended == pc \in {"finally", "respond", "done"} /\ svc.kind # "pending"

NoDuplicates(list) ==
    \A i, j \in 1..Len(list) : i # j => list[i] # list[j]

IsId(x) == x # None

\* the per-face return values that are identities, in face order
Matches(results) == SelectSeq(results, IsId)

AllZero(log) == \A i \in 1..Len(log) : log[i] = "zero"

\* the detector raised on the last attempt extract_faces_with_retry makes
FinalRaise == Len(detectLog) = MaxRetries /\ detectLog[MaxRetries] = "raise"

\* C1: the list recognize_faces returns holds every identity at most once,
\* also when two or more detected faces matched the same identity.
C1_ResultIsSet ==
    (op = "recognize_faces" /\ svc.kind = "return") => NoDuplicates(svc.value)

C3_ZeroFacesEmptyResult ==
    (/\ op = "recognize_faces"
     /\ decodeOk = "ok"
     /\ dbOk = "ok"
     /\ AllZero(detectLog)
     /\ Len(detectLog) = MaxRetries \/ Len(students) = 0) =>
        /\ svc.kind # "error"
        /\ embedCalls = 0
        /\ pc \in {"finally", "respond", "done"} => svc = Returned(<<>>)
        /\ (viaUrl /\ pc = "done") =>
              http.kind = "success" /\ http.value = <<>> /\ http.count = 0

C3_Witness ==
    /\ op = "recognize_faces"
    /\ viaUrl
    /\ pc = "done"
    /\ Len(students) = 2
    /\ detectLog = <<"zero", "zero", "zero">>
    /\ http.kind = "success"
    /\ http.count = 0

\* distance (squared) from the query to the i-th snapshot entry
QueryDist(i) == DistSq(query, snapshot[i].embedding)

\* the minimum distance over the whole snapshot (snapshot not empty)
MinDist ==
    CHOOSE d \in {QueryDist(i) : i \in 1..Len(snapshot)} :
        \A j \in 1..Len(snapshot) : d <= QueryDist(j)

\* reference: the first index, in snapshot order, at the minimum distance
FirstArgMin ==
    CHOOSE i \in 1..Len(snapshot) :
        /\ QueryDist(i) = MinDist
        /\ \A j \in 1..(i - 1) : QueryDist(j) # MinDist

\* C4: the matcher reports a match exactly when the minimum distance over the
\* snapshot is strictly below 0.6; a minimum of 0.6 or more, and an empty
\* snapshot, give "unmatched".
C4_StrictThreshold ==
    pc = "matched" =>
        /\ ~matchOut.raised
        /\ Len(snapshot) = 0 => matchOut.matched = None
        /\ (Len(snapshot) > 0 /\ MinDist >= Threshold * Threshold) =>
              matchOut.matched = None
        /\ (Len(snapshot) > 0 /\ MinDist < Threshold * Threshold) =>
              matchOut.matched # None

C4_Witness ==
    /\ pc = "matched"
    /\ Len(snapshot) > 1
    /\ MinDist = Threshold * Threshold
    /\ matchOut.matched = None

\* C5: a matched identity is the snapshot entry at the minimum distance, and
\* among several entries at that distance the first in snapshot order.
C5_FirstArgMin ==
    (pc = "matched" /\ matchOut.matched # None) =>
        /\ matchOut.matched = snapshot[FirstArgMin].studentId
        /\ matchOut.min = MinDist

C5_Witness ==
    /\ pc = "matched"
    /\ matchOut.matched # None
    /\ Cardinality({i \in 1..Len(snapshot) : QueryDist(i) = MinDist}) >= 2
    /\ FirstArgMin = 2
    /\ matchOut.matched = snapshot[2].studentId

\* C6: when the snapshot holds an entry whose embedding equals the query, the
\* matcher returns an identity stored with exactly that embedding, at distance
\* 0: never "unmatched", never an identity with another embedding.
C6_ExactMatch ==
    pc = "matched" =>
        \A i \in 1..Len(snapshot) :
            snapshot[i].embedding = query =>
                /\ matchOut.matched # None
                /\ matchOut.min = 0
                /\ \E j \in 1..Len(snapshot) :
                      /\ snapshot[j].studentId = matchOut.matched
                      /\ snapshot[j].embedding = query
                /\ (\A k \in 1..Len(snapshot) :
                        snapshot[k].embedding = query => k = i) =>
                      matchOut.matched = snapshot[i].studentId

C6_Witness ==
    /\ pc = "matched"
    /\ Len(snapshot) = 3
    /\ snapshot[3].embedding = query
    /\ snapshot[1].embedding # query
    /\ snapshot[2].embedding # query
    /\ QueryDist(1) < Threshold * Threshold
    /\ matchOut.matched = snapshot[3].studentId

\* the face being processed failed: the artifact write raised, the embedding
\* capability raised, or it returned no vector or a zero-length vector
FaceFailed ==
    \/ ~embedding.called
    \/ embedding.raises
    \/ Len(embedding.value) = 0
    \/ Len(embedding.value[1].embedding) = 0

\* C7: in recognize_faces a failure while processing one face makes that face
\* unmatched and nothing more: the call is never ended by it, every detected
\* face is processed, and the returned list holds the match of every face
\* that matched.
C7_FaceFailureIsolated ==
    op = "recognize_faces" =>
        /\ (pc = "face_cleanup" /\ FaceFailed) =>
              faceRet = None /\ idx \in faceErrors
        /\ \A i \in faceErrors : i \in 1..Len(faceResults) => faceResults[i] = None
        /\ pc \in {"face_write", "face_embed", "face_cleanup"} =>
              /\ svc = Pending
              /\ Len(faceResults) = idx - 1
              /\ recognized = Matches(faceResults)
        /\ (Ended /\ Len(faces) > 0) =>
              /\ svc.kind = "return"
              /\ Len(faceResults) = Len(faces)
              /\ svc.value = Matches(faceResults)

C7_Witness ==
    /\ op = "recognize_faces"
    /\ pc = "done"
    /\ Len(faces) = 3
    /\ faceErrors = {2}
    /\ faceResults[1] # None
    /\ faceResults[3] # None
    /\ svc = Returned(<<faceResults[1], faceResults[3]>>)

C9_NoFaceDetected ==
    (/\ op = "get_face_embedding"
     /\ Ended
     /\ Len(detectLog) = MaxRetries
     /\ detectLog[MaxRetries] = "zero") =>
        /\ svc = Raised(400, "No face detected in image")
        /\ embedCalls = 0

C9_Witness ==
    /\ op = "get_face_embedding"
    /\ pc = "done"
    /\ detectLog = <<"raise", "zero", "zero">>
    /\ svc.status = 400
    /\ svc.detail = "No face detected in image"

\* C10: get_face_embedding for which the detector returned two or more faces
\* raises the 400 "Multiple faces detected in image" error; it never returns
\* an embedding and never calls the embedding capability.
C10_MultipleFaces ==
    (op = "get_face_embedding" /\ Len(faces) >= 2) =>
        /\ embedCalls = 0
        /\ pc # "embed"
        /\ svc.kind # "return"
        /\ Ended => svc = Raised(400, "Multiple faces detected in image")

C10_Witness ==
    /\ op = "get_face_embedding"
    /\ pc = "done"
    /\ Len(faces) = 2
    /\ svc.status = 400
    /\ svc.detail = "Multiple faces detected in image"

\* C11: get_face_embedding for which detection ended with exactly one face
\* invokes the embedding capability once; it returns the vector the capability
\* produced, and when the capability returns no vector or a zero-length vector
\* it ends in the embedding error and returns no value.
C11_EnrollOneFace ==
    (op = "get_face_embedding" /\ Ended /\ Len(faces) = 1) =>
        /\ embedCalls = 1
        /\ embedding.called
        /\ svc = IF embedding.raises
                 THEN Raised(500, "Error processing face: represent failed")
                 ELSE IF \/ Len(embedding.value) = 0
                         \/ Len(embedding.value[1].embedding) = 0
                 THEN Raised(500, "Error processing face: Failed to generate embedding")
                 ELSE Returned(embedding.value[1].embedding)

C11_Witness ==
    /\ op = "get_face_embedding"
    /\ pc = "done"
    /\ Len(faces) = 1
    /\ embedding = [called |-> TRUE, raises |-> FALSE,
                    value |-> <<[embedding |-> <<>>]>>]
    /\ svc.kind = "error"
    /\ svc.detail = "Error processing face: Failed to generate embedding"

\* C12: when get_face_embedding ends in the 400 no-face or multiple-faces
\* error, a caller that came through /encode and get_face_embedding_from_url
\* receives an error of the same status and the same reason.
C12_CardinalityErrorSurfaced ==
    (/\ op = "get_face_embedding"
     /\ viaUrl
     /\ pc = "done"
     /\ svc.status = 400) =>
        /\ http.status = svc.status
        /\ http.detail = svc.detail

\* extract_faces_with_retry has returned to its caller
DetectionReturned ==
    /\ Len(detectLog) > 0
    /\ pc \notin {"detect", "sleep"}
    /\ ~FinalRaise

\* C13: extract_faces_with_retry invokes the detector at most MaxRetries
\* times; only the last invocation of a call can have returned faces, and then
\* the call returns exactly what that invocation returned; it returns the
\* empty sequence when MaxRetries invocations all returned zero faces, and
\* only after MaxRetries invocations of which the last returned zero faces.
C13_RetryContract ==
    /\ Len(detectLog) <= MaxRetries
    /\ \A i \in 1..(Len(detectLog) - 1) : detectLog[i] # "faces"
    /\ (Len(detectLog) > 0 /\ detectLog[Len(detectLog)] = "faces") =>
          /\ DetectionReturned
          /\ Len(faces) > 0
          /\ faces = detected
    /\ (Len(detectLog) = MaxRetries /\ AllZero(detectLog)) =>
          /\ DetectionReturned
          /\ faces = <<>>
    /\ (DetectionReturned /\ faces = <<>>) =>
          /\ Len(detectLog) = MaxRetries
          /\ detectLog[MaxRetries] = "zero"

C13_Witness ==
    /\ pc = "done"
    /\ detectLog = <<"zero", "faces">>
    /\ Len(detected) = 3
    /\ faces = detected

\* C14: when the detector raises on the MaxRetries-th attempt, the failure
\* reaches the caller of extract_faces_with_retry: the method ends in the
\* error its except clause makes of it, never as it would after an empty
\* detection result.
C14_FinalRaisePropagates ==
    FinalRaise =>
        /\ pc \in {"finally", "respond", "done"}
        /\ svc = Wrap500("Face detection failed")
        /\ faces = <<>>
        /\ embedCalls = 0

C14_Witness ==
    /\ op = "get_face_embedding"
    /\ pc = "done"
    /\ detectLog = <<"zero", "zero", "raise">>
    /\ svc = Raised(500, "Error processing face: Face detection failed")

\* C19: when the snapshot recognize_faces fetched is empty, the call returns
\* the empty list and the embedding capability is not invoked.
C19_EmptySnapshot ==
    (/\ op = "recognize_faces"
     /\ dbOk = "ok"
     /\ Len(students) = 0) =>
        /\ embedCalls = 0
        /\ pc \in {"finally", "respond", "done"}
        /\ svc = Returned(<<>>)
        /\ (viaUrl /\ pc = "done") => http = RecognizeResponse(<<>>)

C19_Witness ==
    /\ op = "recognize_faces"
    /\ pc = "done"
    /\ fetches = 1
    /\ dbOk = "ok"
    /\ students = <<>>
    /\ embedCalls = 0
    /\ svc = Returned(<<>>)

\* the temporary files the call may still need at its current position
LiveFiles ==
    (IF pc \in {"respond", "done"} THEN {} ELSE {ImgFile}) \cup
    (IF pc \in {"face_embed", "face_cleanup"} THEN {FaceFile(idx)} ELSE {})

\* C15: once get_face_embedding or recognize_faces has returned or raised, a
\* temporary file of the call (the whole-image file or a per-face file) exists
\* only if its removal failed, on every exit path; a per-face file whose
\* removal did not fail is gone as soon as its face has been processed.
C15_NoArtifactLeft ==
    /\ (files \ rmFailures) \subseteq LiveFiles
    /\ (pc \in {"respond", "done"} /\ rmFailures = {}) => files = {}

C15_Witness ==
    /\ op = "recognize_faces"
    /\ pc = "done"
    /\ Len(faces) = 2
    /\ faceErrors = {2}
    /\ embedCalls = 2
    /\ rmFailures = {}
    /\ files = {}

\* C16: a cleanup step ends with the outcome that was pending when it began,
\* whether or not os.remove raised: the finally clause of get_face_embedding
\* and recognize_faces keeps the value or error of the method, and
\* process_single_face hands its caller the value it was about to return.
C16_CleanupKeepsOutcome ==
    [][/\ pc = "finally" => svc' = svc
       /\ pc = "face_cleanup" =>
             /\ faceResults' = Append(faceResults, faceRet)
             /\ recognized' = Collect(recognized, faceRet)
             /\ pc' = "finally" => svc' = Returned(recognized')]_vars

C16_Witness ==
    /\ op = "recognize_faces"
    /\ pc = "done"
    /\ rmFailures = {FaceFile(1), ImgFile}
    /\ files = rmFailures
    /\ faceResults = <<IdName(1)>>
    /\ svc = Returned(<<IdName(1)>>)

\* C18: a recognize_faces call reads the registry once, before any face is
\* processed; the list it fetched changes at no later step, whatever is
\* enrolled meanwhile, and every face is matched against that list, not
\* against the registry as it has become.
C18_OneSnapshot ==
    [][/\ students' # students => (pc = "fetch" /\ students' = registry)
       /\ fetches' # fetches => (pc = "fetch" /\ fetches = 0 /\ fetches' = 1)
       /\ pc' \in {"write", "detect", "sleep", "faces", "face_write",
                   "face_embed", "face_cleanup"} => fetches' = 1
       /\ pc = "face_embed" =>
             /\ faceRet' = FaceReturn(embedding', students)
             /\ students' = students]_vars

C18_Witness ==
    /\ pc = "face_cleanup"
    /\ fetches = 1
    /\ registry # students
    /\ embedding.called
    /\ ~embedding.raises
    /\ faceRet = None
    /\ FaceReturn(embedding, registry) # None

\* C17: among concurrent invocations of get_face_embedding and
\* recognize_faces, in every interleaving of their steps, a temporary file
\* name is written by one task of one invocation only, and an invocation
\* removes only names it wrote itself.
C17_NamesNotShared ==
    /\ \A name \in DOMAIN used : Cardinality(used[name]) = 1
    /\ \A r \in removed :
          /\ r.name \in DOMAIN used
          /\ \A w \in used[r.name] : w.call = r.call

C17_Witness ==
    /\ pc = "concurrent"
    /\ invs[1].op = "recognize_faces"
    /\ invs[2].op = "recognize_faces"
    /\ invs[1].at = "remove_face"
    /\ invs[2].at = "remove_face"
    /\ invs[1].idx = 1
    /\ invs[2].idx = 1
    /\ invs[1].img \in files
    /\ invs[2].img \in files
    /\ invs[1].face \in files
    /\ invs[2].face \in files
    /\ \E r \in removed : r.call = 1
    /\ \E r \in removed : r.call = 2

\* C20: a second run of recognize_faces on the same image bytes and the same
\* registry, in which the detector and the embedding capability do what they
\* did in the first run, ends as the first run ended: it returns the same
\* identity list, or raises the same error.
C20_SameResult ==
    (run = 2 /\ pc = "done") => svc = firstSvc

C20_Witness ==
    /\ run = 2
    /\ pc = "done"
    /\ Len(faces) = 2
    /\ faceResults = <<None, IdName(1)>>
    /\ firstSvc = Returned(<<IdName(1)>>)
    /\ svc = firstSvc


\* C21: a recognize_faces call runs process_single_face once for every
\* detected face, one face at a time in detector order, so the units complete
\* in one order only; the returned list is the identities among the per-face
\* results taken by face position.
C21_OneUnitPerFace ==
    op = "recognize_faces" =>
        /\ Len(faceResults) <= Len(faces)
        /\ pc \in {"face_write", "face_embed", "face_cleanup"} =>
              /\ idx \in 1..Len(faces)
              /\ Len(faceResults) = idx - 1
        /\ (Ended /\ Len(faces) > 0) =>
              /\ Len(faceResults) = Len(faces)
              /\ svc = Returned(Matches(faceResults))

C21_Witness ==
    /\ op = "recognize_faces"
    /\ pc = "done"
    /\ Len(faces) = 3
    /\ faceResults = <<IdName(2), None, IdName(1)>>
    /\ svc = Returned(<<IdName(2), IdName(1)>>)


\* C22 as stated: a recognize_faces call with a non-empty registry and n
\* detected faces invokes the embedding capability exactly n times, and a
\* get_face_embedding call invokes it at most once.
C22_EmbedOncePerFace ==
    /\ (op = "recognize_faces" /\ Ended /\ Len(students) > 0) =>
          embedCalls = Len(faces)
    /\ op = "get_face_embedding" => embedCalls <= 1

\* the faces among the first k whose crop was written
Written(k) == (1..k) \ cropErrors

\* C22 as amended: the embedding capability is invoked once, and never a
\* second time, for every detected face whose crop was written, whatever the
\* invocation did, and not at all for a face whose crop write failed; with n
\* detected faces that is n invocations less the failed crop writes. A
\* get_face_embedding call invokes it at most once.
C22_EmbedOncePerWrittenFace ==
    /\ op = "recognize_faces" =>
          /\ cropErrors \subseteq 1..Len(faces)
          /\ pc \in {"face_write", "face_embed"} =>
                embedCalls = Cardinality(Written(idx - 1))
          /\ pc = "face_cleanup" => embedCalls = Cardinality(Written(idx))
          /\ (Ended /\ Len(students) > 0) =>
                embedCalls = Len(faces) - Cardinality(cropErrors)
    /\ op = "get_face_embedding" => embedCalls <= 1

C22_Witness ==
    /\ op = "recognize_faces"
    /\ pc = "done"
    /\ Len(faces) = 3
    /\ cropErrors = {2}
    /\ faceErrors = {1, 2}
    /\ embedCalls = 2


\* C23: when the image bytes do not decode, get_face_embedding and
\* recognize_faces end in the decode error, which an endpoint caller receives
\* as an error response; the registry has not been fetched, no temporary file
\* written, and neither the detector nor the embedding capability invoked.
C23_DecodeErrorFirst ==
    decodeOk = "fail" =>
        /\ pc \in {"finally", "respond", "done"}
        /\ svc = Wrap500("Failed to decode image")
        /\ fetches = 0
        /\ dbOk = "unknown"
        /\ files = {}
        /\ detectLog = <<>>
        /\ embedCalls = 0
        /\ (viaUrl /\ pc = "done") => (http.kind = "error" /\ http.status = 500)

C23_Witness ==
    /\ op = "recognize_faces"
    /\ viaUrl
    /\ pc = "done"
    /\ decodeOk = "fail"
    /\ Len(registry) > 0
    /\ svc = Raised(500, "Failed to decode image")
    /\ http = HttpError(500, "Failed to decode image")


\* C24: extract_faces_with_retry waits once after every attempt that is not
\* the last one and that returned zero faces or raised, and at no other
\* moment: a wait is pending only after such an attempt, before each attempt
\* there were as many waits as attempts, and a call that made k attempts
\* made k - 1 waits, never more than MaxRetries - 1.
C24_WaitsBetweenAttempts ==
    /\ waits <= MaxRetries - 1
    /\ pc = "detect" => waits = Len(detectLog)
    /\ pc = "sleep" =>
          /\ Len(detectLog) \in 1..(MaxRetries - 1)
          /\ detectLog[Len(detectLog)] \in {"zero", "raise"}
          /\ waits = Len(detectLog) - 1
    /\ (Len(detectLog) > 0 /\ pc \notin {"detect", "sleep"}) =>
          waits = Len(detectLog) - 1

C24_Witness ==
    /\ pc = "done"
    /\ detectLog = <<"raise", "zero", "faces">>
    /\ waits = 2


\* C25: extract_faces_with_retry raises exactly when the detector raised on
\* the MaxRetries-th attempt; a raise on an earlier attempt is followed by a
\* wait and leaves the call undecided, and a call that returns returns what
\* its last attempt gave: the empty sequence after zero faces, the faces
\* otherwise.
C25_RaisesIffFinalRaise ==
    /\ svc = Wrap500("Face detection failed") <=> FinalRaise
    /\ (/\ Len(detectLog) \in 1..(MaxRetries - 1)
        /\ detectLog[Len(detectLog)] = "raise") =>
          /\ svc = Pending
          /\ pc \in {"sleep", "detect"}
    /\ DetectionReturned =>
          /\ detectLog[Len(detectLog)] \in {"zero", "faces"}
          /\ detectLog[Len(detectLog)] = "zero" => faces = <<>>
          /\ detectLog[Len(detectLog)] = "faces" => faces = detected

C25_Witness ==
    /\ op = "recognize_faces"
    /\ pc = "done"
    /\ detectLog = <<"raise", "raise", "zero">>
    /\ faces = <<>>
    /\ svc = Returned(<<>>)


\* the snapshot has an entry with this id whose embedding is nearer than the
\* threshold to the vector DeepFace.represent returned
NearEntry(id, rep) ==
    /\ ~rep.raises
    /\ Len(rep.value) > 0
    /\ \E i \in 1..Len(students) :
          /\ students[i].studentId = id
          /\ CanSubtract(rep.value[1].embedding, students[i].embedding)
          /\ DistSq(rep.value[1].embedding, students[i].embedding)
                < Threshold * Threshold

\* C26: an id that process_single_face returns for a face is the id of an
\* entry of the fetched snapshot whose embedding is at distance < 0.6 from
\* that face's embedding; recognize_faces appends exactly these ids, face by
\* face in detector order, so its list is never longer than the list of
\* detected faces and is the ids among the per-face results in face order.
C26_ReturnedIdsAreNearEntries ==
    [][op = "recognize_faces" =>
        /\ (pc = "face_embed" /\ faceRet' # None) => NearEntry(faceRet', embedding')
        /\ pc = "face_cleanup" =>
              /\ faceResults' = Append(faceResults, faceRet)
              /\ recognized' = IF faceRet # None
                               THEN Append(recognized, faceRet)
                               ELSE recognized
        /\ Len(recognized') <= Len(faceResults')
        /\ Len(faceResults') <= Len(faces')
        /\ recognized' = Matches(faceResults')
        /\ svc'.kind = "return" => svc'.value = recognized']_vars

C26_Witness ==
    /\ op = "recognize_faces"
    /\ pc = "face_cleanup"
    /\ idx = 3
    /\ faceResults = <<IdName(1), None>>
    /\ recognized = <<IdName(1)>>
    /\ faceRet = IdName(2)
    /\ NearEntry(IdName(2), embedding)


\* the distance to some snapshot entry cannot be computed for the vector
\* DeepFace.represent returned
ScanFails(rep) ==
    /\ ~rep.raises
    /\ Len(rep.value) > 0
    /\ \E i \in 1..Len(students) :
          ~CanSubtract(rep.value[1].embedding, students[i].embedding)

\* C27: when the subtraction raises for a snapshot entry, process_single_face
\* returns None for that face, also when an earlier entry of the snapshot was
\* within the threshold, and recognize_faces still returns its list.
C27_ScanFailureUnmatched ==
    op = "recognize_faces" =>
        /\ (pc = "face_cleanup" /\ embedding.called /\ ScanFails(embedding)) =>
              /\ faceRet = None
              /\ idx \in faceErrors
        /\ (Ended /\ embedCalls > 0) => svc = Returned(Matches(faceResults))

C27_Witness ==
    /\ op = "recognize_faces"
    /\ pc = "face_cleanup"
    /\ embedding.called
    /\ ScanFails(embedding)
    /\ CanSubtract(embedding.value[1].embedding, students[1].embedding)
    /\ DistSq(embedding.value[1].embedding, students[1].embedding) = 0
    /\ faceRet = None


\* C28: recognize_faces fetches the snapshot and tests it for emptiness
\* before it writes the image file and before it calls the detector: with an
\* empty snapshot no temporary file is ever written and the detector is never
\* invoked, and a file or a detector invocation of the call implies a
\* fetched, non-empty snapshot.
C28_EmptyCheckBeforeWrite ==
    op = "recognize_faces" =>
        /\ (dbOk = "ok" /\ Len(students) = 0) =>
              /\ files = {}
              /\ detectLog = <<>>
              /\ waits = 0
        /\ (files # {} \/ detectLog # <<>> \/ pc \in {"write", "detect"}) =>
              /\ fetches = 1
              /\ dbOk = "ok"
              /\ Len(students) > 0

C28_Witness ==
    /\ op = "recognize_faces"
    /\ viaUrl
    /\ pc = "respond"
    /\ dbOk = "ok"
    /\ students = <<>>
    /\ files = {}
    /\ detectLog = <<>>


\* the whole-image file exists from its creation until the finally clause of
\* recognize_faces has run
ImageFileKept ==
    /\ pc \in {"detect", "sleep", "faces", "face_write", "face_embed",
                "face_cleanup"} => ImgFile \in files
    /\ (pc = "finally" /\ detectLog # <<>>) => ImgFile \in files

\* C29 as stated: during a recognize_faces call at most one per-face file
\* exists at any moment, and the whole-image file exists from its creation
\* until all faces have been processed.
C29_AtMostOneFaceFile ==
    op = "recognize_faces" =>
        /\ Cardinality(files \ {ImgFile}) <= 1
        /\ ImageFileKept

\* C29 as amended: during a recognize_faces call a per-face file whose removal
\* has not failed exists only while its own face is being processed, so at
\* most one such file exists at any moment and none while the next crop is
\* about to be written; the whole-image file exists from its creation until
\* all faces have been processed, and after the call only if its removal
\* failed.
C29_OneLiveFaceFile ==
    op = "recognize_faces" =>
        /\ \A f \in files \ (rmFailures \cup {ImgFile}) :
              /\ f = FaceFile(idx)
              /\ pc \in {"face_embed", "face_cleanup"}
        /\ rmFailures \subseteq files
        /\ ImageFileKept
        /\ (pc \in {"respond", "done"} /\ ImgFile \notin rmFailures) =>
              ImgFile \notin files

C29_Witness ==
    /\ op = "recognize_faces"
    /\ pc = "face_embed"
    /\ idx = 2
    /\ rmFailures = {FaceFile(1)}
    /\ files = {ImgFile, FaceFile(1), FaceFile(2)}


\* C30: if every call to the registry, the detector and the embedding model
\* returns or raises, the service call that has started returns a result or
\* raises an error, and the detection retry loop that has started is left.
C30_CallsEnd ==
    /\ (pc = "decode") ~> (pc \in {"respond", "done"} /\ svc.kind # "pending")
    /\ (pc = "detect") ~> (pc \notin {"detect", "sleep"})

C30_Witness ==
    /\ pc = "done"
    /\ svc.kind # "pending"
    /\ op = "recognize_faces"
    /\ Len(detectLog) = MaxRetries
    /\ waits = MaxRetries - 1

====
